---- MODULE Spec2Model ----
\* Model of server/adkrest/controllers/handlers.go: the trackingResponseWriter
\* decorator, EncodeJSONResponse, NewErrorHandler and Unimplemented.
\*
\* Byte strings are sequences of one-character strings.  The response writer
\* handed in by the HTTP server (the "underlying sink") is modelled by the
\* sequence of calls it receives and by its header map.  Every request has its
\* own underlying sink and, when served through NewErrorHandler, its own
\* trackingResponseWriter.
EXTENDS Integers, Sequences, FiniteSets, TLC

\* ---------------------------------------------------------------- bounds
NumReq == 2          \* requests the state is dimensioned for
MaxSteps == 2        \* calls a fallible handler makes before it returns

Reqs == 1..NumReq
Min(S) == CHOOSE x \in S : \A y \in S : x <= y

\* ---------------------------------------------------------------- constants
StatusInternalServerError == 500
StatusNotImplemented == 501

JSONContentType == "application/json; charset=UTF-8"
TextContentType == "text/plain; charset=utf-8"
LF == "\n"

\* ---------------------------------------------------------------- inputs
StatusCodes == {200, 204, 404}
Bodies == {<<"h", "i">>}
Msgs == {<<"b", "o", "o", "m">>, <<"n", "f">>}
Bools == {TRUE, FALSE}

\* the values handed to EncodeJSONResponse: nil, a serializable value, and
\* a value encoding/json cannot encode (a channel)
NilValue == [kind |-> "nil", b |-> FALSE]
ChanValue == [kind |-> "chan", b |-> FALSE]
JSONValues == {NilValue, [kind |-> "bool", b |-> TRUE], ChanValue}

\* the errors a fallible handler returns: nil, a plain error, a statusError
NoErr == [kind |-> "nil", status |-> 0, msg |-> <<>>]
Errors ==
  {NoErr}
  \cup {[kind |-> "generic", status |-> 0, msg |-> m] : m \in Msgs}
  \cup {[kind |-> "status", status |-> c, msg |-> m] : c \in StatusCodes, m \in Msgs}

\* ---------------------------------------------------------------- state
VARIABLES
  pc,             \* per request: "idle", "fn" (inside the fallible handler), "done"
  entry,          \* per request: which handler serves it
  headerWritten,  \* per request: trackingResponseWriter.headerWritten
  rw,             \* per request: calls received by the underlying ResponseWriter
  hdr,            \* per request: header map of the underlying ResponseWriter
  twCalls,        \* per request: calls made on the trackingResponseWriter
  logs,           \* per request: lines written with log.Printf
  ops,            \* per request: operations performed so far
  ret             \* per request: error returned by the fallible handler

vars == <<pc, entry, headerWritten, rw, hdr, twCalls, logs, ops, ret>>

NoHeader == [k \in {"Content-Type", "X-Content-Type-Options"} |-> ""]

\* the sink state one operation works on
St(r) ==
  [hw |-> headerWritten[r], rw |-> rw[r], hdr |-> hdr[r],
   tw |-> twCalls[r], log |-> logs[r]]

\* result of a Write on the underlying sink: all bytes, or an error
WriteN(data, ok) == IF ok THEN Len(data) ELSE 0

\* -------------------------------------------------- underlying ResponseWriter
RawWriteHeader(s, code, via, by) ==
  [s EXCEPT !.rw = Append(@,
     [op |-> "WriteHeader", code |-> code, data |-> <<>>,
      ct |-> s.hdr["Content-Type"], via |-> via, by |-> by,
      n |-> 0, err |-> FALSE])]

RawWrite(s, data, ok, via, by) ==
  [s EXCEPT !.rw = Append(@,
     [op |-> "Write", code |-> 0, data |-> data,
      ct |-> s.hdr["Content-Type"], via |-> via, by |-> by,
      n |-> WriteN(data, ok), err |-> ~ok])]

\* -------------------------------------------------- trackingResponseWriter
TwWriteHeaderAlwaysForward(s, code, by) ==
  RawWriteHeader(
    [s EXCEPT !.hw = TRUE,
              !.tw = Append(@, [op |-> "WriteHeader", code |-> code, data |-> <<>>,
                                pre |-> s.hw, by |-> by, n |-> 0, err |-> FALSE])],
    code, "tw", by)

TwWriteHeaderNoMark(s, code, by) ==
  LET t == [s EXCEPT !.tw = Append(@, [op |-> "WriteHeader", code |-> code,
                                       data |-> <<>>, pre |-> s.hw, by |-> by,
                                       n |-> 0, err |-> FALSE])]
  IN IF s.hw
       THEN [t EXCEPT !.log = Append(@, [kind |-> "duplicate", code |-> code])]
       ELSE RawWriteHeader(t, code, "tw", by)

TwWriteHeader(s, code, by) ==
  LET t == [s EXCEPT !.tw = Append(@, [op |-> "WriteHeader", code |-> code,
                                       data |-> <<>>, pre |-> s.hw, by |-> by,
                                       n |-> 0, err |-> FALSE])]
  IN IF s.hw
       THEN [t EXCEPT !.log = Append(@, [kind |-> "duplicate", code |-> code])]
       ELSE RawWriteHeader([t EXCEPT !.hw = TRUE], code, "tw", by)

TwWriteNoMark(s, data, ok, by) ==
  RawWrite(
    [s EXCEPT !.tw = Append(@, [op |-> "Write", code |-> 0, data |-> data,
                                pre |-> s.hw, by |-> by,
                                n |-> WriteN(data, ok), err |-> ~ok])],
    data, ok, "tw", by)

TwWriteSwallowErr(s, data, ok, by) ==
  RawWrite(
    [s EXCEPT !.hw = TRUE,
              !.tw = Append(@, [op |-> "Write", code |-> 0, data |-> data,
                                pre |-> s.hw, by |-> by,
                                n |-> Len(data), err |-> FALSE])],
    data, ok, "tw", by)

TwWrite(s, data, ok, by) ==
  RawWrite(
    [s EXCEPT !.hw = TRUE,
              !.tw = Append(@, [op |-> "Write", code |-> 0, data |-> data,
                                pre |-> s.hw, by |-> by,
                                n |-> WriteN(data, ok), err |-> ~ok])],
    data, ok, "tw", by)

\* a call through the http.ResponseWriter interface: k is the dynamic type
WWriteHeader(k, s, code, by) ==
  IF k = "tw" THEN TwWriteHeader(s, code, by) ELSE RawWriteHeader(s, code, "raw", by)

WWrite(k, s, data, ok, by) ==
  IF k = "tw" THEN TwWrite(s, data, ok, by) ELSE RawWrite(s, data, ok, "raw", by)

WSetHeader(s, key, val) == [s EXCEPT !.hdr = [@ EXCEPT ![key] = val]]

\* -------------------------------------------------- net/http.Error
HttpErrorNoBody(k, s, msg, code, ok, by) ==
  WWriteHeader(k,
    WSetHeader(WSetHeader(s, "Content-Type", TextContentType),
               "X-Content-Type-Options", "nosniff"),
    code, by)

HttpError(k, s, msg, code, ok, by) ==
  WWrite(k,
    WWriteHeader(k,
      WSetHeader(WSetHeader(s, "Content-Type", TextContentType),
                 "X-Content-Type-Options", "nosniff"),
      code, by),
    Append(msg, LF), ok, by)

\* -------------------------------------------------- encoding/json
Marshalable(i) == i.kind \in {"nil", "bool"}

Marshal(i) ==
  IF i.kind = "nil" THEN <<"n", "u", "l", "l">>
  ELSE IF i.b THEN <<"t", "r", "u", "e">>
  ELSE <<"f", "a", "l", "s", "e">>

UnsupportedTypeMsg == <<"j", "s", "o", "n">>
WriteErrMsg == <<"E", "I", "O">>

\* json.NewEncoder(w).Encode(i): marshals first, writes only what marshalled
EncodeFails(i, ok) == ~Marshalable(i) \/ ~ok
EncodeErrMsg(i) == IF Marshalable(i) THEN WriteErrMsg ELSE UnsupportedTypeMsg

Encode(k, s, i, ok, by) ==
  IF Marshalable(i) THEN WWrite(k, s, Append(Marshal(i), LF), ok, by) ELSE s

\* -------------------------------------------------- EncodeJSONResponse
EncodeJSONResponseHeaderLate(k, s, i, status, ok, ok2, by) ==
  LET s1 == WSetHeader(WWriteHeader(k, s, status, by), "Content-Type", JSONContentType)
      s2 == Encode(k, s1, i, ok, by)
  IN IF i = NilValue THEN s1
     ELSE IF ~EncodeFails(i, ok) THEN s2
     ELSE IF k = "tw" /\ s2.hw
       THEN [s2 EXCEPT !.log = Append(@, [kind |-> "encode", code |-> status])]
       ELSE HttpError(k, s2, EncodeErrMsg(i), StatusInternalServerError, ok2, by)

EncodeJSONResponseNoNilCheck(k, s, i, status, ok, ok2, by) ==
  LET s1 == WWriteHeader(k, WSetHeader(s, "Content-Type", JSONContentType), status, by)
      s2 == Encode(k, s1, i, ok, by)
  IN IF ~EncodeFails(i, ok) THEN s2
     ELSE IF k = "tw" /\ s2.hw
       THEN [s2 EXCEPT !.log = Append(@, [kind |-> "encode", code |-> status])]
       ELSE HttpError(k, s2, EncodeErrMsg(i), StatusInternalServerError, ok2, by)

EncodeJSONResponseNoTrackCheck(k, s, i, status, ok, ok2, by) ==
  LET s1 == WWriteHeader(k, WSetHeader(s, "Content-Type", JSONContentType), status, by)
      s2 == Encode(k, s1, i, ok, by)
  IN IF i = NilValue THEN s1
     ELSE IF ~EncodeFails(i, ok) THEN s2
     ELSE HttpError(k, s2, EncodeErrMsg(i), StatusInternalServerError, ok2, by)

EncodeJSONResponse(k, s, i, status, ok, ok2, by) ==
  LET s1 == WWriteHeader(k, WSetHeader(s, "Content-Type", JSONContentType), status, by)
      s2 == Encode(k, s1, i, ok, by)
  IN IF i = NilValue THEN s1
     ELSE IF ~EncodeFails(i, ok) THEN s2
     ELSE IF k = "tw" /\ s2.hw
       THEN [s2 EXCEPT !.log = Append(@, [kind |-> "encode", code |-> status])]
       ELSE HttpError(k, s2, EncodeErrMsg(i), StatusInternalServerError, ok2, by)

\* -------------------------------------------------- NewErrorHandler
ErrorStatusAlways500(e) == StatusInternalServerError

ErrorStatus(e) ==
  IF e.kind = "status" THEN e.status ELSE StatusInternalServerError

\* the part of the returned handler that follows err := fn(tw, r)
HandleErrorUnchecked(s, e, ok) ==
  IF e = NoErr THEN s
  ELSE HttpError("tw", s, e.msg, ErrorStatus(e), ok, "wrapper")

HandleErrorResets(s, e, ok) ==
  IF e = NoErr THEN s
  ELSE IF s.hw
    THEN [s EXCEPT !.log = Append(@, [kind |-> "after", code |-> 0]), !.hw = FALSE]
    ELSE HttpError("tw", s, e.msg, ErrorStatus(e), ok, "wrapper")

HandleErrorInverted(s, e, ok) ==
  IF e # NoErr THEN s
  ELSE IF s.hw
    THEN [s EXCEPT !.log = Append(@, [kind |-> "after", code |-> 0])]
    ELSE HttpError("tw", s, e.msg, ErrorStatus(e), ok, "wrapper")

HandleError(s, e, ok) ==
  IF e = NoErr THEN s
  ELSE IF s.hw
    THEN [s EXCEPT !.log = Append(@, [kind |-> "after", code |-> 0])]
    ELSE HttpError("tw", s, e.msg, ErrorStatus(e), ok, "wrapper")

\* -------------------------------------------------- Unimplemented
UnimplementedWithBody(k, s, by) ==
  WWrite(k, WWriteHeader(k, s, StatusNotImplemented, by), <<"5", "0", "1">>, TRUE, by)

Unimplemented(k, s, by) == WWriteHeader(k, s, StatusNotImplemented, by)

\* ---------------------------------------------------------------- actions
Op(name, sink, code, data, i, e) ==
  [op |-> name, sink |-> sink, code |-> code, data |-> data, i |-> i, e |-> e]

CommitSharedTw(r, s, o, nextpc) ==
  /\ headerWritten' = [q \in Reqs |-> s.hw]
  /\ rw' = [rw EXCEPT ![r] = s.rw]
  /\ hdr' = [hdr EXCEPT ![r] = s.hdr]
  /\ twCalls' = [twCalls EXCEPT ![r] = s.tw]
  /\ logs' = [logs EXCEPT ![r] = s.log]
  /\ ops' = [ops EXCEPT ![r] = Append(@, o)]
  /\ pc' = [pc EXCEPT ![r] = nextpc]

Commit(r, s, o, nextpc) ==
  /\ headerWritten' = [headerWritten EXCEPT ![r] = s.hw]
  /\ rw' = [rw EXCEPT ![r] = s.rw]
  /\ hdr' = [hdr EXCEPT ![r] = s.hdr]
  /\ twCalls' = [twCalls EXCEPT ![r] = s.tw]
  /\ logs' = [logs EXCEPT ![r] = s.log]
  /\ ops' = [ops EXCEPT ![r] = Append(@, o)]
  /\ pc' = [pc EXCEPT ![r] = nextpc]

Init ==
  /\ pc = [r \in Reqs |-> "idle"]
  /\ entry = [r \in Reqs |-> "none"]
  /\ headerWritten = [r \in Reqs |-> FALSE]
  /\ rw = [r \in Reqs |-> <<>>]
  /\ hdr = [r \in Reqs |-> NoHeader]
  /\ twCalls = [r \in Reqs |-> <<>>]
  /\ logs = [r \in Reqs |-> <<>>]
  /\ ops = [r \in Reqs |-> <<>>]
  /\ ret = [r \in Reqs |-> NoErr]

\* the handler returned by NewErrorHandler is invoked: tw is created and fn starts
Serve(r) ==
  /\ pc[r] = "idle"
  /\ pc' = [pc EXCEPT ![r] = "fn"]
  /\ entry' = [entry EXCEPT ![r] = "wrapped"]
  /\ headerWritten' = [headerWritten EXCEPT ![r] = FALSE]
  /\ UNCHANGED <<rw, hdr, twCalls, logs, ops, ret>>

InFn(r) == pc[r] = "fn" /\ Len(ops[r]) < MaxSteps

\* fn calls tw.WriteHeader(code)
FnWriteHeader(r, code) ==
  /\ InFn(r)
  /\ Commit(r, TwWriteHeader(St(r), code, "fn"),
            Op("WriteHeader", "tw", code, <<>>, NilValue, NoErr), "fn")
  /\ UNCHANGED <<entry, ret>>

\* fn calls tw.Write(data)
FnWrite(r, data, ok) ==
  /\ InFn(r)
  /\ Commit(r, TwWrite(St(r), data, ok, "fn"),
            Op("Write", "tw", 0, data, NilValue, NoErr), "fn")
  /\ UNCHANGED <<entry, ret>>

\* fn calls EncodeJSONResponse(i, status, tw)
FnEncodeJSON(r, i, status, ok) ==
  /\ InFn(r)
  /\ (Marshalable(i) /\ i # NilValue) \/ ok
  /\ Commit(r, EncodeJSONResponse("tw", St(r), i, status, ok, TRUE, "fn"),
            Op("EncodeJSONResponse", "tw", status, <<>>, i, NoErr), "fn")
  /\ UNCHANGED <<entry, ret>>

\* fn sets the status on tw.Unwrap() (what http.ResponseController.Flush does)
FnUnwrapWriteHeader(r, code) ==
  /\ InFn(r)
  /\ Commit(r, RawWriteHeader(St(r), code, "raw", "fn"),
            Op("WriteHeader", "raw", code, <<>>, NilValue, NoErr), "fn")
  /\ UNCHANGED <<entry, ret>>

\* fn writes body bytes to tw.Unwrap()
FnUnwrapWrite(r, data, ok) ==
  /\ InFn(r)
  /\ Commit(r, RawWrite(St(r), data, ok, "raw", "fn"),
            Op("Write", "raw", 0, data, NilValue, NoErr), "fn")
  /\ UNCHANGED <<entry, ret>>

\* fn returns e and the handler returned by NewErrorHandler finishes
FnReturn(r, e, ok) ==
  /\ pc[r] = "fn"
  /\ (e # NoErr /\ ~headerWritten[r]) \/ ok
  /\ Commit(r, HandleError(St(r), e, ok),
            Op("return", "tw", 0, <<>>, NilValue, e), "done")
  /\ ret' = [ret EXCEPT ![r] = e]
  /\ UNCHANGED entry

\* a plain handler calls EncodeJSONResponse(i, status, w) on the server's writer
EncodeJSONHandler(r, i, status, ok, ok2) ==
  /\ pc[r] = "idle"
  /\ (Marshalable(i) /\ i # NilValue) \/ ok
  /\ (EncodeFails(i, ok) /\ i # NilValue) \/ ok2
  /\ Commit(r, EncodeJSONResponse("raw", St(r), i, status, ok, ok2, "handler"),
            Op("EncodeJSONResponse", "raw", status, <<>>, i, NoErr), "done")
  /\ entry' = [entry EXCEPT ![r] = "encode"]
  /\ UNCHANGED ret

\* the server calls Unimplemented(rw, req)
UnimplementedHandler(r) ==
  /\ pc[r] = "idle"
  /\ Commit(r, Unimplemented("raw", St(r), "handler"),
            Op("Unimplemented", "raw", 0, <<>>, NilValue, NoErr), "done")
  /\ entry' = [entry EXCEPT ![r] = "unimplemented"]
  /\ UNCHANGED ret

\* one step of request r, its inputs drawn from the given sets
Handle(r, codes, values, errs) ==
  \/ Serve(r)
  \/ \E code \in codes : FnWriteHeader(r, code)
  \/ \E data \in Bodies, ok \in Bools : FnWrite(r, data, ok)
  \/ \E i \in values, status \in codes, ok \in Bools : FnEncodeJSON(r, i, status, ok)
  \/ \E code \in codes : FnUnwrapWriteHeader(r, code)
  \/ \E data \in Bodies, ok \in Bools : FnUnwrapWrite(r, data, ok)
  \/ \E e \in errs, ok \in Bools : FnReturn(r, e, ok)
  \/ \E i \in values, status \in codes, ok \in Bools, ok2 \in Bools :
       EncodeJSONHandler(r, i, status, ok, ok2)
  \/ UnimplementedHandler(r)

\* one request, served with every input
Next == \E r \in {Min(Reqs)} : Handle(r, StatusCodes, JSONValues, Errors)

Spec == Init /\ [][Next]_vars

\* concurrent requests served by one handler returned by NewErrorHandler:
\* every request runs its own invocation, steps interleave freely
ConcCodes == {200}
ConcErrors == {NoErr, [kind |-> "status", status |-> 404, msg |-> <<"n", "f">>]}

NextConc ==
  \E r \in Reqs :
    \/ Serve(r)
    \/ \E code \in ConcCodes : FnWriteHeader(r, code)
    \/ \E data \in Bodies : FnWrite(r, data, TRUE)
    \/ \E e \in ConcErrors : FnReturn(r, e, TRUE)

SpecConc == Init /\ [][NextConc]_vars

\* ---------------------------------------------------------------- observations
RECURSIVE Concat(_)
Concat(calls) ==
  IF calls = <<>> THEN <<>> ELSE Head(calls).data \o Concat(Tail(calls))

IsStatus(c) == c.op = "WriteHeader"
IsBody(c) == c.op = "Write"

\* status calls, and body bytes, handed to the underlying sink of request r
Statuses(r) == SelectSeq(rw[r], IsStatus)
Body(r) == Concat(SelectSeq(rw[r], IsBody))

\* status calls the trackingResponseWriter forwarded
ViaTw(c) == c.op = "WriteHeader" /\ c.via = "tw"
Forwarded(r) == SelectSeq(rw[r], ViaTw)

\* status of the response the underlying sink sends: the first status it
\* receives, or 200 when a body write comes first; 0 while it received nothing
RespStatus(r) ==
  IF rw[r] = <<>> THEN 0
  ELSE IF rw[r][1].op = "WriteHeader" THEN rw[r][1].code ELSE 200

Contains(b, m) ==
  \E k \in 0..(Len(b) - Len(m)) : SubSeq(b, k + 1, k + Len(m)) = m

Last(q) == q[Len(q)]

Wrapped(r) == entry[r] = "wrapped"
Finished(r) == pc[r] = "done"
ByFn(c) == c.by = "fn"
ByWrapper(c) == c.by = "wrapper"
OnRaw(o) == o.sink = "raw"
TwStatusCalls(r) == SelectSeq(twCalls[r], IsStatus)
Fresh(c) == c.op = "WriteHeader" /\ ~c.pre

\* ---------------------------------------------------------------- claims

\* C1: over any sequence of WriteHeader and Write calls on one
\* trackingResponseWriter at most one status code is forwarded to the
\* underlying sink; it is the code of the first WriteHeader call and it is
\* forwarded only when that call is the very first call on the writer; every
\* WriteHeader call made while headerWritten is true is suppressed.
C1_AtMostOneStatusForwarded ==
  \A r \in Reqs :
    /\ Len(Forwarded(r)) <= 1
    /\ Len(Forwarded(r)) = 1 =>
         /\ twCalls[r][1].op = "WriteHeader"
         /\ twCalls[r][1].code = Forwarded(r)[1].code
         /\ TwStatusCalls(r)[1].code = Forwarded(r)[1].code
    /\ Len(Forwarded(r)) = Len(SelectSeq(twCalls[r], Fresh))

C1_Witness ==
  \E r \in Reqs :
    /\ Len(TwStatusCalls(r)) = 2
    /\ TwStatusCalls(r)[1].code # TwStatusCalls(r)[2].code
    /\ Len(Forwarded(r)) = 1
    /\ Len(logs[r]) = 1

\* C2: when the fallible handler emitted output through the tracked writer
\* and then returned an error, the handler returned by NewErrorHandler
\* forwards nothing to the underlying sink: every call the sink received was
\* made by the fallible handler, and the error is only logged.
C2_NoResponseAfterOutput ==
  \A r \in Reqs :
    (Finished(r) /\ Wrapped(r) /\ ret[r] # NoErr
       /\ SelectSeq(twCalls[r], ByFn) # <<>>) =>
      /\ SelectSeq(rw[r], ByWrapper) = <<>>
      /\ SelectSeq(twCalls[r], ByWrapper) = <<>>
      /\ Last(logs[r]).kind = "after"

C2_Witness ==
  \E r \in Reqs :
    /\ Finished(r) /\ Wrapped(r) /\ ret[r].kind = "generic"
    /\ Len(rw[r]) = 2
    /\ rw[r][1].op = "WriteHeader" /\ rw[r][1].code = 200 /\ rw[r][1].by = "fn"
    /\ rw[r][2].op = "Write" /\ rw[r][2].by = "fn"

\* C3: when the fallible handler wrote nothing and returned a statusError
\* with status S and message M, the underlying sink receives the status S
\* exactly once, as the status of the response, with a text/plain content
\* type, and a body that contains M.
C3_StatusErrorResponse ==
  \A r \in Reqs :
    (Finished(r) /\ Wrapped(r) /\ Len(ops[r]) = 1 /\ ret[r].kind = "status") =>
      /\ Len(Statuses(r)) = 1
      /\ Statuses(r)[1].code = ret[r].status
      /\ Statuses(r)[1].ct = TextContentType
      /\ RespStatus(r) = ret[r].status
      /\ Contains(Body(r), ret[r].msg)

C3_Witness ==
  \E r \in Reqs :
    /\ Finished(r) /\ Wrapped(r) /\ Len(ops[r]) = 1
    /\ ret[r] = [kind |-> "status", status |-> 404, msg |-> <<"n", "f">>]
    /\ RespStatus(r) = 404

\* C4: when the fallible handler wrote nothing and returned an error that is
\* not a statusError, with message M, the response has status 500, a
\* text/plain content type, and a body that contains M.
C4_GenericErrorResponse ==
  \A r \in Reqs :
    (Finished(r) /\ Wrapped(r) /\ Len(ops[r]) = 1 /\ ret[r].kind = "generic") =>
      /\ Len(Statuses(r)) = 1
      /\ RespStatus(r) = StatusInternalServerError
      /\ Statuses(r)[1].ct = TextContentType
      /\ Contains(Body(r), ret[r].msg)

C4_Witness ==
  \E r \in Reqs :
    /\ Finished(r) /\ Wrapped(r) /\ Len(ops[r]) = 1
    /\ ret[r] = [kind |-> "generic", status |-> 0, msg |-> <<"b", "o", "o", "m">>]
    /\ RespStatus(r) = 500
    /\ Len(Body(r)) = 5

\* C5 as stated: in every execution of a wrapped handler whose writes all go
\* through the tracked writer, the underlying sink receives a status code
\* exactly once, never twice and never zero times.
C5_StatusExactlyOnce ==
  \A r \in Reqs :
    (Finished(r) /\ Wrapped(r) /\ SelectSeq(ops[r], OnRaw) = <<>>) =>
      Len(Statuses(r)) = 1

\* C5 amended: in every such execution the underlying sink receives a status
\* code at most once; it receives one exactly when the first call on the
\* tracked writer (by the fallible handler, or by the error response when the
\* handler wrote nothing) is WriteHeader, and none when there is no call on
\* the tracked writer or the first call is Write.
C5_StatusAtMostOnce ==
  \A r \in Reqs :
    (Finished(r) /\ Wrapped(r) /\ SelectSeq(ops[r], OnRaw) = <<>>) =>
      /\ Len(Statuses(r)) <= 1
      /\ Len(Statuses(r)) = 1 <=>
           (twCalls[r] # <<>> /\ twCalls[r][1].op = "WriteHeader")

C5_Witness ==
  \E r \in Reqs :
    /\ Finished(r) /\ Wrapped(r) /\ ret[r] = NoErr
    /\ Len(twCalls[r]) = 2
    /\ twCalls[r][1].op = "Write" /\ twCalls[r][2].op = "WriteHeader"
    /\ Len(Statuses(r)) = 0

\* C6 as stated: when serialization fails inside EncodeJSONResponse, on a
\* tracked writer with headerWritten true the failure is only logged and
\* nothing further is written; on any other sink the response is a 500
\* response carrying the serialization error's message, the fallback being
\* attempted only when nothing was sent on the sink.
C6_EncodeFailureFallback ==
  [][\A r \in Reqs :
       (/\ Len(ops'[r]) = Len(ops[r]) + 1
        /\ Last(ops'[r]).op = "EncodeJSONResponse"
        /\ ~Marshalable(Last(ops'[r]).i)) =>
         IF Last(ops'[r]).sink = "tw" /\ headerWritten'[r]
           THEN /\ Last(logs'[r]).kind = "encode"
                /\ Len(SelectSeq(rw'[r], IsBody)) = Len(SelectSeq(rw[r], IsBody))
           ELSE /\ rw[r] = <<>>
                /\ RespStatus(r)' = StatusInternalServerError
                /\ Len(Statuses(r)') = 1
                /\ Contains(Body(r)', UnsupportedTypeMsg)]_vars

\* C7 as stated: a handler error that occurs after the response started is
\* never surfaced by the wrapper, however the handler started the response,
\* including a status or body sent to the sink obtained from Unwrap.
C7_NoErrorAfterStart ==
  \A r \in Reqs :
    (Finished(r) /\ Wrapped(r) /\ ret[r] # NoErr
       /\ SelectSeq(rw[r], ByFn) # <<>>) =>
      SelectSeq(rw[r], ByWrapper) = <<>>

\* EncodeJSONResponse was the first operation on the sink of r, with a
\* serializable non-nil value, and every write was accepted
EncodedFirst(r) ==
  /\ Len(ops[r]) = 1
  /\ ops[r][1].op = "EncodeJSONResponse"
  /\ Marshalable(ops[r][1].i) /\ ops[r][1].i # NilValue
  /\ \A j \in 1..Len(rw[r]) : ~rw[r][j].err

EncodedOrder(r) ==
  /\ Len(rw[r]) = 2
  /\ rw[r][1].op = "WriteHeader"
  /\ rw[r][1].code = ops[r][1].code
  /\ rw[r][1].ct = JSONContentType
  /\ rw[r][2].op = "Write"
  /\ RespStatus(r) = ops[r][1].code
  /\ hdr[r]["Content-Type"] = JSONContentType

C9_NilValueNoBody ==
  [][\A r \in Reqs :
       (/\ Len(ops'[r]) = Len(ops[r]) + 1
        /\ Last(ops'[r]).op = "EncodeJSONResponse"
        /\ Last(ops'[r]).i = NilValue) =>
         /\ Len(SelectSeq(rw'[r], IsBody)) = Len(SelectSeq(rw[r], IsBody))
         /\ IF Last(ops'[r]).sink = "tw"
              THEN /\ Len(twCalls'[r]) = Len(twCalls[r]) + 1
                   /\ Last(twCalls'[r]).op = "WriteHeader"
                   /\ Last(twCalls'[r]).code = Last(ops'[r]).code
                   /\ Len(Statuses(r)') <= Len(Statuses(r)) + 1
              ELSE /\ Len(rw'[r]) = Len(rw[r]) + 1
                   /\ Last(rw'[r]).op = "WriteHeader"
                   /\ Last(rw'[r]).code = Last(ops'[r]).code
         /\ rw[r] = <<>> =>
              /\ Len(rw'[r]) = 1
              /\ RespStatus(r)' = Last(ops'[r]).code
              /\ Body(r)' = <<>>]_vars

C9_Witness ==
  \E r \in Reqs :
    /\ Len(ops[r]) = 1
    /\ ops[r][1].op = "EncodeJSONResponse"
    /\ ops[r][1].i = NilValue
    /\ RespStatus(r) = 204
    /\ Body(r) = <<>>

\* C10: the Unimplemented handler emits status 501 on the sink and makes no
\* body write: the response is status 501 with an empty body.
C10_Unimplemented ==
  \A r \in Reqs :
    entry[r] = "unimplemented" =>
      /\ Len(rw[r]) = 1
      /\ rw[r][1].op = "WriteHeader"
      /\ rw[r][1].code = 501
      /\ RespStatus(r) = 501
      /\ Body(r) = <<>>

C10_Witness ==
  \E r \in Reqs :
    /\ Finished(r) /\ entry[r] = "unimplemented"
    /\ Len(Statuses(r)) = 1

\* C11: one WriteHeader(S) call on a fresh trackingResponseWriter forwards
\* exactly one status call, with the code S, to the underlying sink and
\* leaves headerWritten true, for every S.
C11_FirstStatusForwarded ==
  \A r \in Reqs :
    (/\ Wrapped(r) /\ Len(ops[r]) = 1
     /\ ops[r][1].op = "WriteHeader" /\ ops[r][1].sink = "tw") =>
      /\ Len(rw[r]) = 1
      /\ rw[r][1].op = "WriteHeader"
      /\ rw[r][1].code = ops[r][1].code
      /\ rw[r][1].via = "tw"
      /\ headerWritten[r]
      /\ logs[r] = <<>>

C11_Witness ==
  \E r \in Reqs :
    /\ pc[r] = "fn" /\ Len(ops[r]) = 1
    /\ ops[r][1].op = "WriteHeader" /\ ops[r][1].sink = "tw"
    /\ ops[r][1].code = 404
    /\ Statuses(r)[1].code = 404
    /\ headerWritten[r]

\* C12: headerWritten starts false, is true exactly from the first
\* WriteHeader or Write call on the trackingResponseWriter, and no operation
\* (WriteHeader, Write, output through Unwrap, the wrapper's error path)
\* resets it to false.
C12_HeaderWrittenMonotone ==
  /\ \A r \in Reqs : ~headerWritten[r]
  /\ [](\A r \in Reqs : headerWritten[r] <=> twCalls[r] # <<>>)
  /\ [][\A r \in Reqs : headerWritten[r] => headerWritten'[r]]_vars

C12_Witness ==
  \E r \in Reqs :
    /\ Finished(r) /\ Wrapped(r) /\ ret[r] # NoErr
    /\ headerWritten[r]
    /\ Len(ops[r]) = 3
    /\ ops[r][1].sink = "raw"
    /\ ops[r][2].op = "Write" /\ ops[r][2].sink = "tw"
    /\ Last(logs[r]).kind = "after"

\* a Write the fallible handler made on the trackingResponseWriter
FnBody(c) == c.op = "Write" /\ c.by = "fn"

\* a Write on the trackingResponseWriter of r was the step just taken
WriteStep(r) ==
  /\ Len(ops'[r]) = Len(ops[r]) + 1
  /\ Last(ops'[r]).op = "Write" /\ Last(ops'[r]).sink = "tw"

\* C13: Write on the trackingResponseWriter always leaves headerWritten
\* true and always forwards the write to the underlying sink, returning the
\* sink's (n, err) unchanged, whether or not WriteHeader was called before
\* and whether or not the underlying write fails; an error the handler
\* returns afterwards is only logged, not turned into an error response.
C13_WriteForwardsAndMarks ==
  /\ [][\A r \in Reqs :
          WriteStep(r) =>
            /\ headerWritten'[r]
            /\ Len(rw'[r]) = Len(rw[r]) + 1
            /\ SubSeq(rw'[r], 1, Len(rw[r])) = rw[r]
            /\ Last(rw'[r]).op = "Write"
            /\ Last(rw'[r]).data = Last(ops'[r]).data
            /\ Last(twCalls'[r]).op = "Write"
            /\ Last(twCalls'[r]).n = Last(rw'[r]).n
            /\ Last(twCalls'[r]).err = Last(rw'[r]).err]_vars
  /\ [](\A r \in Reqs :
          (Finished(r) /\ Wrapped(r) /\ ret[r] # NoErr
             /\ SelectSeq(twCalls[r], FnBody) # <<>>) =>
            /\ SelectSeq(rw[r], ByWrapper) = <<>>
            /\ \A j \in 1..Len(logs[r]) :
                 logs[r][j].kind = "after" <=> j = Len(logs[r]))

C13_Witness ==
  \E r \in Reqs :
    /\ Finished(r) /\ Wrapped(r) /\ ret[r].kind = "status"
    /\ Len(twCalls[r]) = 1
    /\ twCalls[r][1].op = "Write" /\ twCalls[r][1].err /\ twCalls[r][1].n = 0
    /\ ~twCalls[r][1].pre
    /\ Len(rw[r]) = 1

\* calls on the trackingResponseWriter that are not suppressed duplicates
NotSuppressed(c) == ~(c.op = "WriteHeader" /\ c.pre)
TwForwarded(r) == SelectSeq(twCalls[r], NotSuppressed)
IsViaTw(c) == c.via = "tw"
ViaTwCalls(r) == SelectSeq(rw[r], IsViaTw)

SameCalls(a, b) ==
  /\ Len(a) = Len(b)
  /\ \A j \in 1..Len(a) :
       /\ a[j].op = b[j].op
       /\ a[j].code = b[j].code
       /\ a[j].data = b[j].data
       /\ a[j].by = b[j].by

\* C14: when the fallible handler returns no error the wrapper makes no
\* status or body write: the underlying sink received, through the tracked
\* writer, exactly the handler's calls on the tracked writer in order minus
\* the suppressed duplicate WriteHeader calls, and nothing at all when the
\* handler wrote nothing.
C14_NoErrorNoWrapperWrite ==
  \A r \in Reqs :
    (Finished(r) /\ Wrapped(r) /\ ret[r] = NoErr) =>
      /\ SelectSeq(rw[r], ByWrapper) = <<>>
      /\ SelectSeq(twCalls[r], ByWrapper) = <<>>
      /\ SameCalls(ViaTwCalls(r), TwForwarded(r))
      /\ SelectSeq(ops[r], OnRaw) = <<>> => SameCalls(rw[r], TwForwarded(r))
      /\ Len(ops[r]) = 1 => rw[r] = <<>>
      /\ \A j \in 1..Len(logs[r]) : logs[r][j].kind # "after"

C14_Witness ==
  \E r \in Reqs :
    /\ Finished(r) /\ Wrapped(r) /\ ret[r] = NoErr
    /\ Len(twCalls[r]) = 2
    /\ twCalls[r][1].op = "WriteHeader" /\ twCalls[r][2].op = "WriteHeader"
    /\ Len(rw[r]) = 1

\* EncodeJSONResponse on the trackingResponseWriter of r was the step just taken
EncodeOnTwStep(r) ==
  /\ Len(ops'[r]) = Len(ops[r]) + 1
  /\ Last(ops'[r]).op = "EncodeJSONResponse" /\ Last(ops'[r]).sink = "tw"

\* the encoder of that step returned an error: the value cannot be
\* serialized, or the write of the serialization failed
EncodeStepFailed(r) ==
  \/ ~Marshalable(Last(ops'[r]).i)
  \/ /\ Last(ops'[r]).i # NilValue
     /\ Last(rw'[r]).op = "Write" /\ Last(rw'[r]).err

IsTextPlain(c) == c.ct = TextContentType

\* C15: whenever EncodeJSONResponse is called with a trackingResponseWriter,
\* headerWritten is true when the encoder runs, so an encoding failure is
\* only logged: the 500 fallback is not taken, and no second status and no
\* error body reach the underlying sink.
C15_TrackedEncodeFailureLogged ==
  [][\A r \in Reqs :
       EncodeOnTwStep(r) =>
         /\ headerWritten'[r]
         /\ Len(Forwarded(r)') <= 1
         /\ Len(Statuses(r)') <= Len(Statuses(r)) + 1
         /\ SelectSeq(rw'[r], IsTextPlain) = SelectSeq(rw[r], IsTextPlain)
         /\ hdr'[r]["Content-Type"] = JSONContentType
         /\ EncodeStepFailed(r) =>
              /\ Last(logs'[r]).kind = "encode"
              /\ ~Marshalable(Last(ops'[r]).i) =>
                   Len(SelectSeq(rw'[r], IsBody)) = Len(SelectSeq(rw[r], IsBody))
              /\ Len(SelectSeq(rw'[r], IsBody)) <= Len(SelectSeq(rw[r], IsBody)) + 1]_vars

C15_Witness ==
  \E r \in Reqs :
    /\ pc[r] = "fn" /\ Len(ops[r]) = 1
    /\ ops[r][1].op = "EncodeJSONResponse" /\ ops[r][1].sink = "tw"
    /\ ops[r][1].i = ChanValue
    /\ Len(rw[r]) = 1
    /\ logs[r] = <<[kind |-> "encode", code |-> ops[r][1].code]>>

\* request r took a step
Stepped(r) == pc'[r] # pc[r] \/ ops'[r] # ops[r]

ErrorResponseSent(r) ==
  /\ Len(SelectSeq(rw[r], ByWrapper)) = 2
  /\ Last(Statuses(r)).code = ret[r].status
  /\ Last(Statuses(r)).by = "wrapper"

\* C16: every invocation of the handler returned by NewErrorHandler has its
\* own trackingResponseWriter, with headerWritten false until that request
\* writes; under any interleaving of concurrent requests a step of one
\* request changes nothing of another request, the first WriteHeader of a
\* request is forwarded whatever the others wrote, and a request whose
\* handler fails gets the error response exactly when that request's own
\* handler wrote nothing.
C16_RequestsIndependent ==
  /\ [](\A r \in Reqs :
          /\ headerWritten[r] <=> twCalls[r] # <<>>
          /\ (twCalls[r] # <<>> /\ twCalls[r][1].op = "WriteHeader") =>
               (Len(Forwarded(r)) = 1 /\ Forwarded(r)[1].code = twCalls[r][1].code)
          /\ (Finished(r) /\ Wrapped(r) /\ ret[r] # NoErr) =>
               (ErrorResponseSent(r) <=> SelectSeq(twCalls[r], ByFn) = <<>>))
  /\ [][\A r \in Reqs : \A q \in Reqs \ {r} :
          Stepped(r) =>
            /\ headerWritten'[q] = headerWritten[q]
            /\ rw'[q] = rw[q]
            /\ hdr'[q] = hdr[q]
            /\ twCalls'[q] = twCalls[q]
            /\ logs'[q] = logs[q]
            /\ ret'[q] = ret[q]]_vars

C16_Witness ==
  \E r \in Reqs : \E q \in Reqs \ {r} :
    /\ pc[r] = "fn" /\ headerWritten[r] /\ Len(rw[r]) = 2
    /\ Finished(q) /\ Wrapped(q) /\ ret[q] # NoErr
    /\ Len(ops[q]) = 1
    /\ RespStatus(q) = 404
    /\ ErrorResponseSent(q)

====
